---- MODULE Spec2Model ----
(***************************************************************************)
(* TextStyle (src/src/scene/text/TextStyle.ts): a mutable style object     *)
(* with property setters, an update notification, a memoized style key,    *)
(* reset, clone, destroy and the v7 -> v8 configuration migration.         *)
(*                                                                         *)
(* Encoding of JavaScript values.  A value whose static type is a union    *)
(* is a tagged record, each tag with its own field set:                    *)
(*   null [null |-> TRUE], undefined [undef |-> TRUE], NaN [nan |-> TRUE], *)
(*   number [num |-> n], color string [str |-> s], string read character   *)
(*   by character [chars |-> <<..>>], boolean [bool |-> b],                *)
(*   caller-built paint object [obj |-> identity, color, width, texture,   *)
(*   fill], resolved paint descriptor [dcolor, dalpha, dwidth, dtexture,   *)
(*   dfill], drop shadow given by the caller [shadow |-> fields].          *)
(* === on objects is identity: two caller-built paint objects are the      *)
(* same object iff their obj fields agree.                                 *)
(***************************************************************************)
EXTENDS Integers, Sequences, FiniteSets, TLC

VARIABLES style, cfg, textures, lastOp, nops, scene, view, heap

vars == <<nops, style, cfg, textures, lastOp, scene, view, heap>>

\* The state outside TextStyle: the container tree searched by findMixin,
\* the ViewSystem, and the identities of the drop-shadow objects.
others == <<scene, view, heap>>

\* Their values while no container, view system or tracked object exists.
NoScene == [none |-> TRUE]

NoView == [none |-> TRUE]

NoHeap == [none |-> TRUE]

\* Bound on the number of public calls made after the initial state.
MaxOps == 2

Null == [null |-> TRUE]

Undefined == [undef |-> TRUE]

NaN == [nan |-> TRUE]

\* The two style instances of a run, and the two configuration objects.
Inst == {1, 2}

CfgIds == {1, 2}

\* The observers that can subscribe to 'update': "reader" reads styleKey
\* inside its callback, "quiet" only counts the notification.
Obs == {"reader", "quiet"}

\* The properties whose setter is `this._p = value; this.update()`.
PlainProps ==
    {"align", "breakWords", "fontFamily", "fontStyle", "fontVariant",
     "fontWeight", "leading", "letterSpacing", "lineHeight", "padding",
     "trim", "textBaseline", "whiteSpace", "wordWrap", "wordWrapWidth"}

\* The keys of TextStyle.defaultTextStyle, in declaration order.
DefaultKeys ==
    <<"align", "breakWords", "dropShadow", "fill", "fontFamily", "fontSize",
      "fontStyle", "fontVariant", "fontWeight", "leading", "letterSpacing",
      "lineHeight", "padding", "stroke", "textBaseline", "trim", "whiteSpace",
      "wordWrap", "wordWrapWidth">>

StyleProps == {DefaultKeys[n] : n \in 1..Len(DefaultKeys)}

\* TextStyle.defaultDropShadow; the angle PI / 6 is written in degrees.
defaultDropShadow ==
    [alpha |-> 1, angle |-> 30, blur |-> 0, color |-> "black", distance |-> 5]

ShadowFields == {"alpha", "angle", "blur", "color", "distance"}

\* TextStyle.defaultTextStyle.
defaultTextStyle ==
    [align |-> "left", breakWords |-> FALSE, dropShadow |-> Null,
     fill |-> [str |-> "black"], fontFamily |-> "Arial",
     fontSize |-> [num |-> 26], fontStyle |-> "normal",
     fontVariant |-> "normal", fontWeight |-> "normal", leading |-> 0,
     letterSpacing |-> 0, lineHeight |-> 0, padding |-> 0, stroke |-> Null,
     textBaseline |-> "alphabetic", trim |-> FALSE, whiteSpace |-> "pre",
     wordWrap |-> FALSE, wordWrapWidth |-> 100]

\* One non-default value of each plain property, of the property's type.
AltPlain ==
    [align |-> "center", breakWords |-> TRUE, fontFamily |-> "Helvetica",
     fontStyle |-> "italic", fontVariant |-> "small-caps",
     fontWeight |-> "bold", leading |-> 2, letterSpacing |-> 1,
     lineHeight |-> 30, padding |-> 4, textBaseline |-> "top", trim |-> TRUE,
     whiteSpace |-> "normal", wordWrap |-> TRUE, wordWrapWidth |-> 200]

----------------------------------------------------------------------------
(* Collaborators that live outside src/: the color parser, the paint       *)
(* converter with its two default templates, and the key generator.        *)

\* Color.shared.setValue(color).toNumber() on the colors used here.
ColorToNumber(c) ==
    IF "num" \in DOMAIN c THEN c.num
    ELSE IF c.str = "black" THEN 0
    ELSE IF c.str = "white" THEN 16777215
    ELSE 16711680

IsColorLike(v) == DOMAIN v = {"num"} \/ DOMAIN v = {"str"}

IsDescriptor(v) == "dcolor" \in DOMAIN v

IsPaintObject(v) == "obj" \in DOMAIN v

\* JavaScript falsiness of a raw paint input.
IsFalsy(v) == v = Null \/ v = Undefined \/ v = [num |-> 0] \/ v = [str |-> ""]

\* GraphicsContext.defaultFillStyle / defaultStrokeStyle: the templates the
\* converter merges the input over.
defaultFillStyle ==
    [dcolor |-> 16777215, dalpha |-> 1, dwidth |-> Undefined,
     dtexture |-> "WHITE", dfill |-> Null]

defaultStrokeStyle ==
    [dcolor |-> 16777215, dalpha |-> 1, dwidth |-> [num |-> 1],
     dtexture |-> "WHITE", dfill |-> Null]

\* The converter's failure signal for an input it does not recognise.
Unsupported == [unsupported |-> TRUE]

\* convertFillInputToFillStyle(value, defaultStyle): nothing for a falsy
\* input, the template recoloured for a color, the template overlaid with
\* the fields of a paint object, a resolved descriptor unchanged, and a
\* failure for a paint object whose color is not a color.
convertFillInputToFillStyle(value, defaultStyle) ==
    IF IsFalsy(value) THEN Null
    ELSE IF IsColorLike(value)
        THEN [defaultStyle EXCEPT !.dcolor = ColorToNumber(value)]
    ELSE IF IsDescriptor(value) THEN value
    ELSE IF IsPaintObject(value)
        THEN IF value.color # Undefined /\ ~IsColorLike(value.color)
             THEN Unsupported
             ELSE [dcolor |-> IF value.color = Undefined
                              THEN defaultStyle.dcolor
                              ELSE ColorToNumber(value.color),
                   dalpha |-> defaultStyle.dalpha,
                   dwidth |-> IF value.width = Undefined
                              THEN defaultStyle.dwidth
                              ELSE value.width,
                   dtexture |-> IF value.texture = Undefined
                                THEN defaultStyle.dtexture
                                ELSE value.texture.tex,
                   dfill |-> IF value.fill = Undefined
                             THEN defaultStyle.dfill
                             ELSE value.fill]
    ELSE Unsupported

\* generateTextStyleKey(style): every property's current value in a fixed
\* order; the paints enter as their resolved descriptors.
generateTextStyleKey(st) ==
    [kprops |-> st.props, kfill |-> st._fill, kstroke |-> st._stroke,
     kshadow |-> st._dropShadow]

----------------------------------------------------------------------------
(* parseInt(value, 10) on a string given as its characters.                *)

DigitVal ==
    [c \in {"0", "1", "2", "3", "4", "5", "6", "7", "8", "9"} |->
        CASE c = "0" -> 0 [] c = "1" -> 1 [] c = "2" -> 2 [] c = "3" -> 3
          [] c = "4" -> 4 [] c = "5" -> 5 [] c = "6" -> 6 [] c = "7" -> 7
          [] c = "8" -> 8 [] c = "9" -> 9]

IsDigit(c) == c \in DOMAIN DigitVal

\* The length of the longest prefix of s made of digits.
RECURSIVE DigitPrefixLen(_)
DigitPrefixLen(s) ==
    IF s = <<>> \/ ~IsDigit(Head(s)) THEN 0 ELSE 1 + DigitPrefixLen(Tail(s))

RECURSIVE DigitsValue(_, _)
DigitsValue(s, acc) ==
    IF s = <<>> THEN acc ELSE DigitsValue(Tail(s), acc * 10 + DigitVal[Head(s)])

\* parseInt: the leading run of digits read in base 10, NaN when there is
\* none (the inputs used carry no sign and no leading blank).
parseInt(s) ==
    IF DigitPrefixLen(s) = 0 THEN NaN
    ELSE [num |-> DigitsValue(SubSeq(s, 1, DigitPrefixLen(s)), 0)]

----------------------------------------------------------------------------
(* A TextStyle instance.  status is "none" (never constructed), "failed"   *)
(* (the constructor threw), "live" or "destroyed".  props holds the        *)
(* private fields of the plain properties and _fontSize.  The last four    *)
(* fields are bookkeeping of the current call: whether it threw, the       *)
(* notifications it delivered to each observer, the number of update()     *)
(* calls, of key generator calls and of paint converter calls it made,     *)
(* and what the "reader" observer found in its last callback: the fields   *)
(* of the instance it was handed and the styleKey it then read.            *)

NoDelivery == [o \in Obs |-> 0]

Blank ==
    [status |-> "none",
     props |-> [p \in PlainProps \cup {"fontSize"} |-> Undefined],
     _fill |-> Undefined, _originalFill |-> Undefined,
     _stroke |-> Undefined, _originalStroke |-> Undefined,
     _dropShadow |-> Undefined, _styleKey |-> Undefined,
     listeners |-> {},
     threw |-> FALSE, delivered |-> NoDelivery, emits |-> 0, genCalls |-> 0,
     convCalls |-> 0, seen |-> Undefined]

\* The bookkeeping of the previous call is dropped when a call starts.
Fresh(st) ==
    [st EXCEPT !.threw = FALSE, !.delivered = NoDelivery, !.emits = 0,
               !.genCalls = 0, !.convCalls = 0, !.seen = Undefined]

\* The fields of an instance, without the bookkeeping of the last call.
Fields(st) ==
    [status |-> st.status, props |-> st.props, _fill |-> st._fill,
     _originalFill |-> st._originalFill, _stroke |-> st._stroke,
     _originalStroke |-> st._originalStroke, _dropShadow |-> st._dropShadow,
     _styleKey |-> st._styleKey, listeners |-> st.listeners]

Exists(st) == st.status \in {"live", "destroyed"}

\* A cached key is used when it is truthy: neither null nor undefined (the
\* generator never makes the empty string).
HasKey(st) == st._styleKey # Null /\ st._styleKey # Undefined

\* TextStyle._generateKey
_generateKey(st) ==
    [st EXCEPT !._styleKey = generateTextStyleKey(st), !.genCalls = @ + 1]

\* Faulty variant of the styleKey getter: the cached key is never used.
styleKey_regenerate(st) == _generateKey(st)

\* get styleKey: the instance after the read; the value read is its _styleKey.
styleKey(st) == IF HasKey(st) THEN st ELSE _generateKey(st)

\* emit('update', this): every subscribed observer is called once, in the
\* call; the "reader" observer reads styleKey in its callback.
emit(st) ==
    LET counted ==
            [st EXCEPT !.delivered =
                [o \in Obs |-> IF o \in st.listeners THEN @[o] + 1 ELSE @[o]]]
    IN IF "reader" \in st.listeners
       THEN [styleKey(counted) EXCEPT
                !.seen = [fields |-> Fields(counted),
                          key |-> styleKey(counted)._styleKey]]
       ELSE counted

\* Faulty variant of update: the cached key is not cleared.
update_keepKey(st) == emit([st EXCEPT !.emits = @ + 1])

\* Faulty variant of update: the observers are called before the key is
\* cleared.
update_emitFirst(st) ==
    [emit([st EXCEPT !.emits = @ + 1]) EXCEPT !._styleKey = Null]

\* TextStyle.update
update(st) == emit([st EXCEPT !._styleKey = Null, !.emits = @ + 1])

\* The setters of the plain properties: this._p = value; this.update().
set_plain(st, p, value) == update([st EXCEPT !.props[p] = value])

\* Faulty variant of the fontSize setter: the value is not stored.
set_fontSize_noStore(st, value) == update(st)

\* set fontSize
set_fontSize(st, value) ==
    update([st EXCEPT !.props["fontSize"] =
                IF "chars" \in DOMAIN value THEN parseInt(value.chars)
                ELSE value])

\* { ...TextStyle.defaultDropShadow, ...value }
MergeShadow(value) ==
    [f \in ShadowFields |->
        IF f \in DOMAIN value THEN value[f] ELSE defaultDropShadow[f]]

\* set dropShadow
set_dropShadow(st, value) ==
    IF value # Null /\ "shadow" \in DOMAIN value
    THEN update([st EXCEPT !._dropShadow = MergeShadow(value.shadow)])
    ELSE update([st EXCEPT !._dropShadow =
                    IF value = [bool |-> TRUE] THEN MergeShadow(<<>>)
                    ELSE Null])

\* Faulty variant of the fill setter: no early return on the retained value.
set_fill_noSkip(st, value) ==
    update([st EXCEPT !._originalFill = value, !.convCalls = @ + 1,
                      !._fill = convertFillInputToFillStyle(
                                    IF value = [num |-> 0] THEN [str |-> "black"]
                                    ELSE value,
                                    defaultFillStyle)])

\* set fill
set_fill(st, value) ==
    IF value = st._originalFill THEN st
    ELSE LET kept == [st EXCEPT !._originalFill = value, !.convCalls = @ + 1]
             conv == convertFillInputToFillStyle(
                        IF value = [num |-> 0] THEN [str |-> "black"] ELSE value,
                        defaultFillStyle)
         IN IF conv = Unsupported THEN [kept EXCEPT !.threw = TRUE]
            ELSE update([kept EXCEPT !._fill = conv])

\* Faulty variant of the stroke setter: no early return on the retained
\* value.
set_stroke_noSkip(st, value) ==
    LET kept == [st EXCEPT !._originalStroke = value, !.convCalls = @ + 1]
        conv == convertFillInputToFillStyle(value, defaultStrokeStyle)
    IN IF conv = Unsupported THEN [kept EXCEPT !.threw = TRUE]
       ELSE update([kept EXCEPT !._stroke = conv])

\* set stroke
set_stroke(st, value) ==
    IF value = st._originalStroke THEN st
    ELSE LET kept == [st EXCEPT !._originalStroke = value,
                                !.convCalls = @ + 1]
             conv == convertFillInputToFillStyle(value, defaultStrokeStyle)
         IN IF conv = Unsupported THEN [kept EXCEPT !.threw = TRUE]
            ELSE update([kept EXCEPT !._stroke = conv])

\* Faulty variant of the assignment by key: stroke is not dispatched.
Assign_noStroke(st, key, value) ==
    IF st.threw THEN st
    ELSE CASE key = "fill" -> set_fill(st, value)
           [] key = "dropShadow" -> set_dropShadow(st, value)
           [] key = "fontSize" -> set_fontSize(st, value)
           [] key \in PlainProps -> set_plain(st, key, value)
           [] OTHER -> st

\* this[key] = value: the setter of key; a key that names no accessor
\* becomes a data property nothing reads.  Nothing runs after a throw.
Assign(st, key, value) ==
    IF st.threw THEN st
    ELSE CASE key = "fill" -> set_fill(st, value)
           [] key = "stroke" -> set_stroke(st, value)
           [] key = "dropShadow" -> set_dropShadow(st, value)
           [] key = "fontSize" -> set_fontSize(st, value)
           [] key \in PlainProps -> set_plain(st, key, value)
           [] OTHER -> st

\* for (const key in values) this[key] = values[key], over keys in order.
RECURSIVE AssignAll(_, _, _)
AssignAll(st, keys, values) ==
    IF keys = <<>> THEN st
    ELSE AssignAll(Assign(st, Head(keys), values[Head(keys)]), Tail(keys),
                   values)

\* The getters: fill and stroke read the retained raw input.
Get(st, p) ==
    CASE p = "fill" -> st._originalFill
      [] p = "stroke" -> st._originalStroke
      [] p = "dropShadow" -> st._dropShadow
      [] OTHER -> st.props[p]

\* Faulty variant of reset: the first default is not restored.
reset_skipFirst(st) == AssignAll(st, Tail(DefaultKeys), defaultTextStyle)

\* TextStyle.reset
reset(st) == AssignAll(st, DefaultKeys, defaultTextStyle)

----------------------------------------------------------------------------
(* Construction.  A configuration object is a function from the keys it    *)
(* carries to their values; convertV7Tov8Style rewrites it in place.       *)

\* style.key = value on a configuration object.
Put(c, k, v) == [x \in DOMAIN c \cup {k} |-> IF x = k THEN v ELSE c[x]]

\* oldStyle.key ?? fallback
OrElse(c, k, fallback) == IF k \in DOMAIN c THEN c[k] ELSE fallback

\* Faulty variant of the drop-shadow path: the sibling fields are not read.
ConvertShadow_defaultsOnly(c) ==
    IF "dropShadow" \in DOMAIN c /\ c.dropShadow = [bool |-> TRUE]
    THEN Put(c, "dropShadow", [shadow |-> defaultDropShadow])
    ELSE c

\* The boolean drop-shadow path (no deprecation call is made on it).
ConvertShadow(c) ==
    IF "dropShadow" \in DOMAIN c /\ c.dropShadow = [bool |-> TRUE]
    THEN Put(c, "dropShadow",
             [shadow |->
                [alpha |-> OrElse(c, "dropShadowAlpha", defaultDropShadow.alpha),
                 angle |-> OrElse(c, "dropShadowAngle", defaultDropShadow.angle),
                 blur |-> OrElse(c, "dropShadowBlur", defaultDropShadow.blur),
                 color |-> OrElse(c, "dropShadowColor", defaultDropShadow.color),
                 distance |-> OrElse(c, "dropShadowDistance",
                                     defaultDropShadow.distance)]])
    ELSE c

HasThickness(c) ==
    "strokeThickness" \in DOMAIN c /\ c.strokeThickness # [num |-> 0]

\* The strokeThickness path: stroke becomes a new object { color, width }
\* whose color is whatever stroke held.
ConvertThickness(c) ==
    IF HasThickness(c)
    THEN Put(c, "stroke",
             [obj |-> 0, color |-> OrElse(c, "stroke", Undefined),
              width |-> c.strokeThickness, texture |-> Undefined,
              fill |-> Undefined])
    ELSE c

HasArrayFill(c) == "fill" \in DOMAIN c /\ "array" \in DOMAIN c.fill

\* (style.fontSize as number) * 1.7, in tenths.
GradientExtent(c) ==
    IF "fontSize" \in DOMAIN c /\ "num" \in DOMAIN c.fontSize
    THEN [tenths |-> 17 * c.fontSize.num]
    ELSE NaN

\* Faulty variant of the stop ratio: a missing entry is not replaced.
StopRatio_noFallback(c, index, length) ==
    IF index + 1 <= Len(c.fillGradientStops)
    THEN c.fillGradientStops[index + 1]
    ELSE Undefined

\* oldStyle.fillGradientStops[index] ?? index / fills.length, index from 0.
StopRatio(c, index, length) ==
    IF index + 1 <= Len(c.fillGradientStops)
    THEN c.fillGradientStops[index + 1]
    ELSE [n |-> index, d |-> length]

\* The array-fill path throws on the first color when the configuration
\* carries no fillGradientStops.
ArrayFillThrows(c) ==
    /\ HasArrayFill(c)
    /\ c.fill.array # <<>>
    /\ "fillGradientStops" \notin DOMAIN c

ConvertArrayFill(c) ==
    IF HasArrayFill(c) /\ ~ArrayFillThrows(c)
    THEN LET fills == [n \in 1..Len(c.fill.array) |->
                          ColorToNumber(c.fill.array[n])]
             gradientFill ==
                [gy1 |-> GradientExtent(c),
                 gstops |-> [n \in 1..Len(fills) |->
                               [ratio |-> StopRatio(c, n - 1, Len(fills)),
                                color |-> fills[n]]]]
         IN Put(c, "fill",
                [obj |-> 0, color |-> Undefined, width |-> Undefined,
                 texture |-> Undefined, fill |-> gradientFill])
    ELSE c

\* convertV7Tov8Style(style): the configuration as it leaves the call,
\* whether the call threw, and the messages of the deprecation calls it
\* made, in order.
convertV7Tov8Style(c) ==
    LET afterShadow == ConvertShadow(c)
        afterStroke == ConvertThickness(afterShadow)
    IN [style |-> ConvertArrayFill(afterStroke),
        threw |-> ArrayFillThrows(afterStroke),
        deprecations |->
            (IF HasThickness(afterShadow)
             THEN <<"strokeThickness is now a part of stroke">> ELSE <<>>)
            \o (IF HasArrayFill(afterStroke)
                THEN <<"gradient fill is now a fill pattern">> ELSE <<>>)]

\* new TextStyle(style): the instance (status "failed" when the migration
\* or a setter threw), the configuration object afterwards and the
\* deprecation calls.  The keys of style outside defaultTextStyle are
\* assigned too; they name no accessor and leave the fields alone.
TextStyle(c) ==
    LET m == convertV7Tov8Style(c)
        fullStyle == [k \in StyleProps |->
                        IF k \in DOMAIN m.style THEN m.style[k]
                        ELSE defaultTextStyle[k]]
        assigned == AssignAll([Blank EXCEPT !.status = "live"], DefaultKeys,
                              fullStyle)
    IN [inst |-> IF m.threw \/ assigned.threw
                 THEN [Blank EXCEPT !.status = "failed", !.threw = TRUE]
                 ELSE update(assigned),
        style |-> m.style,
        deprecations |-> m.deprecations]

\* The configuration clone() builds: 18 keys, trim not among them; the
\* paints are the resolved descriptors, the drop shadow the held record.
CloneConfig(st) ==
    [k \in StyleProps \ {"trim"} |->
        CASE k = "fill" -> st._fill
          [] k = "stroke" -> st._stroke
          [] k = "dropShadow" ->
                IF st._dropShadow = Null THEN Null
                ELSE [shadow |-> st._dropShadow]
          [] OTHER -> Get(st, k)]

\* Faulty variant of clone: the copy takes over the observers.
clone_keepListeners(st) ==
    [TextStyle(CloneConfig(st)) EXCEPT !.inst.listeners = st.listeners]

\* TextStyle.clone
clone(st) == TextStyle(CloneConfig(st))

----------------------------------------------------------------------------
(* Destruction.  textures maps a texture to the number of destroy calls    *)
(* it received and whether its source was destroyed with it.               *)

TexIds == {"WHITE", "T1"}

\* value?.texture for a field that holds a paint: the textures found.
TextureOf(v) ==
    IF IsDescriptor(v) THEN <<v.dtexture>>
    ELSE IF IsPaintObject(v) /\ v.texture # Undefined THEN <<v.texture.tex>>
    ELSE <<>>

\* texture.destroy(destroySource) on each texture of calls, in order.
RECURSIVE DestroyTextures(_, _, _)
DestroyTextures(tex, calls, destroySource) ==
    IF calls = <<>> THEN tex
    ELSE DestroyTextures(
            [tex EXCEPT ![Head(calls)] =
                [calls |-> @.calls + 1,
                 sourceDestroyed |-> @.sourceDestroyed \/ destroySource]],
            Tail(calls), destroySource)

\* typeof options === 'boolean' ? options : options?.field
DestroyOption(options, field) ==
    IF "bool" \in DOMAIN options THEN options.bool
    ELSE IF field \in DOMAIN options THEN options[field] = [bool |-> TRUE]
    ELSE FALSE

\* Faulty variant of destroy: the textures are released whatever is asked.
destroy_always(st, options, tex) ==
    LET cleared == set_dropShadow(
                      [st EXCEPT !.listeners = {}, !._fill = Null,
                                 !._stroke = Null], Null)
    IN [inst |-> [cleared EXCEPT !._originalStroke = Null,
                                 !._originalFill = Null,
                                 !.status = "destroyed"],
        textures |-> DestroyTextures(tex,
                        TextureOf(st._fill) \o TextureOf(st._originalFill)
                            \o TextureOf(st._stroke)
                            \o TextureOf(st._originalStroke),
                        DestroyOption(options, "textureSource"))]

\* Faulty variant of destroy: the observers stay subscribed.
destroy_keepListeners(st, options, tex) ==
    LET cleared == set_dropShadow(
                      [st EXCEPT !._fill = Null, !._stroke = Null], Null)
    IN [inst |-> [cleared EXCEPT !._originalStroke = Null,
                                 !._originalFill = Null,
                                 !.status = "destroyed"],
        textures |-> IF DestroyOption(options, "texture")
                     THEN DestroyTextures(tex,
                            TextureOf(st._fill) \o TextureOf(st._originalFill)
                                \o TextureOf(st._stroke)
                                \o TextureOf(st._originalStroke),
                            DestroyOption(options, "textureSource"))
                     ELSE tex]

\* Faulty variant of destroy: the retained raw fill is not cleared.
destroy_keepRaw(st, options, tex) ==
    LET cleared == set_dropShadow(
                      [st EXCEPT !.listeners = {}, !._fill = Null,
                                 !._stroke = Null], Null)
    IN [inst |-> [cleared EXCEPT !._originalStroke = Null,
                                 !.status = "destroyed"],
        textures |-> IF DestroyOption(options, "texture")
                     THEN DestroyTextures(tex,
                            TextureOf(st._fill) \o TextureOf(st._originalFill)
                                \o TextureOf(st._stroke)
                                \o TextureOf(st._originalStroke),
                            DestroyOption(options, "textureSource"))
                     ELSE tex]

\* Faulty variant of destroy: the fields are cleared before the observers
\* are detached.
destroy_clearFirst(st, options, tex) ==
    LET cleared == set_dropShadow(
                      [st EXCEPT !._fill = Null, !._stroke = Null], Null)
    IN [inst |-> [cleared EXCEPT !.listeners = {},
                                 !._originalStroke = Null,
                                 !._originalFill = Null,
                                 !.status = "destroyed"],
        textures |-> IF DestroyOption(options, "texture")
                     THEN DestroyTextures(tex,
                            TextureOf(st._fill) \o TextureOf(st._originalFill)
                                \o TextureOf(st._stroke)
                                \o TextureOf(st._originalStroke),
                            DestroyOption(options, "textureSource"))
                     ELSE tex]

\* TextStyle.destroy: the instance and the textures after the call.
destroy(st, options, tex) ==
    LET detached == [st EXCEPT !.listeners = {}]
        released ==
            IF DestroyOption(options, "texture")
            THEN DestroyTextures(tex,
                    TextureOf(st._fill) \o TextureOf(st._originalFill)
                        \o TextureOf(st._stroke) \o TextureOf(st._originalStroke),
                    DestroyOption(options, "textureSource"))
            ELSE tex
        cleared == set_dropShadow(
                      [detached EXCEPT !._fill = Null, !._stroke = Null], Null)
    IN [inst |-> [cleared EXCEPT !._originalStroke = Null,
                                 !._originalFill = Null,
                                 !.status = "destroyed"],
        textures |-> released]

----------------------------------------------------------------------------
(* The inputs of the calls.                                                *)

PaintObject(id, color, width, texture) ==
    [obj |-> id, color |-> color, width |-> width, texture |-> texture,
     fill |-> Undefined]

\* Two distinct paint objects with the same contents, and one with a texture.
PaintA == PaintObject(1, [str |-> "red"], Undefined, Undefined)

PaintB == PaintObject(2, [str |-> "red"], Undefined, Undefined)

PaintT == PaintObject(3, Undefined, Undefined, [tex |-> "T1"])

PaintS == PaintObject(4, [str |-> "red"], [num |-> 2], Undefined)

FillInputs ==
    {[str |-> "black"], [str |-> "red"], [num |-> 0], Null, PaintA, PaintB,
     PaintT}

\* A paint object whose color is itself a paint object: no converter input.
PaintBad == PaintObject(5, PaintA, Undefined, Undefined)

StrokeInputs == {Null, [str |-> "red"], PaintS, PaintBad}

FontSizeInputs ==
    {[num |-> 26], [num |-> 36], [chars |-> <<"2", "6", "p", "x">>],
     [chars |-> <<"1", ".", "6", "e", "m">>]}

DropShadowInputs ==
    {Null, [bool |-> TRUE], [bool |-> FALSE], [shadow |-> [blur |-> 4]]}

\* The plain setters are one line of code each and all alike; the calls
\* made on them are on these: the first and the last key of the defaults, a
\* flag, and the key clone() leaves out.
SetterSample == {"align", "breakWords", "trim", "wordWrapWidth"}

DestroyInputs ==
    {[bool |-> FALSE], [bool |-> TRUE],
     [texture |-> [bool |-> TRUE]],
     [texture |-> [bool |-> TRUE], textureSource |-> [bool |-> TRUE]],
     [textureSource |-> [bool |-> TRUE]],
     [texture |-> [bool |-> FALSE], textureSource |-> [bool |-> TRUE]]}

TwoColors == [array |-> <<[str |-> "black"], [str |-> "white"]>>]

\* The configurations a run starts from: current shapes and legacy shapes.
Configs ==
    {[k \in {} |-> Null],
     [fontSize |-> [num |-> 36]],
     [fill |-> PaintT],
     [trim |-> TRUE],
     [fill |-> [str |-> "red"]],
     [dropShadow |-> [bool |-> TRUE], dropShadowBlur |-> 4],
     [stroke |-> [str |-> "red"], strokeThickness |-> [num |-> 2]],
     [fill |-> TwoColors,
      fillGradientStops |-> <<[n |-> 0, d |-> 1], [n |-> 1, d |-> 1]>>],
     [fill |-> TwoColors, fillGradientStops |-> <<[n |-> 1, d |-> 4]>>],
     [fill |-> TwoColors]}

\* The legacy sibling fields of dropShadow, with a value for each that is
\* not the default; two of them are 0, which ?? keeps.
SiblingValue ==
    [dropShadowAlpha |-> 0, dropShadowAngle |-> 90, dropShadowBlur |-> 4,
     dropShadowColor |-> "red", dropShadowDistance |-> 0]

\* { dropShadow: true, ...the siblings named in present }
ShadowConfig(present) ==
    [k \in {"dropShadow"} \cup present |->
        IF k = "dropShadow" THEN [bool |-> TRUE] ELSE SiblingValue[k]]

\* Bounds of the array-fill configurations: colors in the fill, and how
\* many more stops than colors a stop list may have.
MaxColors == 3

MaxExtraStops == 1

\* The colors and the stop positions the lists are cut from.
ColorList ==
    [n \in 1..(MaxColors + 1) |->
        CASE n % 3 = 1 -> [str |-> "black"]
          [] n % 3 = 2 -> [num |-> 16777215]
          [] OTHER -> [str |-> "red"]]

StopList == [n \in 1..(MaxColors + MaxExtraStops + 1) |-> [n |-> n - 1, d |-> 8]]

\* { fill: [n colors], fillGradientStops: [m stops] }, and without stops.
ArrayConfig(n, m) ==
    [fill |-> [array |-> SubSeq(ColorList, 1, n)],
     fillGradientStops |-> SubSeq(StopList, 1, m)]

ArrayConfigNoStops(n) == [fill |-> [array |-> SubSeq(ColorList, 1, n)]]

\* The configurations the migration is run on: every subset of the
\* drop-shadow siblings, strokeThickness with and without a stroke, array
\* fills with a stop list shorter than, as long as and longer than the
\* fill and with none, several legacy shapes at once, and current shapes.
LegacyConfigs ==
    {ShadowConfig(present) : present \in SUBSET DOMAIN SiblingValue}
    \cup {ArrayConfig(n, m) : n \in 0..MaxColors, m \in 0..(MaxColors + MaxExtraStops)}
    \cup {ArrayConfigNoStops(n) : n \in 0..MaxColors}
    \cup {[stroke |-> [str |-> "red"], strokeThickness |-> [num |-> 2]],
          [strokeThickness |-> [num |-> 2]],
          [stroke |-> [str |-> "red"], strokeThickness |-> [num |-> 0]],
          [dropShadow |-> [bool |-> TRUE], dropShadowBlur |-> 4,
           stroke |-> [str |-> "red"], strokeThickness |-> [num |-> 2],
           fill |-> TwoColors, fontSize |-> [num |-> 36],
           fillGradientStops |-> <<[n |-> 0, d |-> 1]>>],
          [dropShadow |-> [bool |-> TRUE], fill |-> TwoColors],
          [dropShadow |-> [bool |-> FALSE], dropShadowBlur |-> 4],
          [dropShadow |-> [shadow |-> [blur |-> 4]]],
          [dropShadow |-> Null, dropShadowBlur |-> 4],
          [k \in {} |-> Null],
          [fontSize |-> [num |-> 36]],
          [fill |-> PaintT]}

----------------------------------------------------------------------------
(* The state machine.  style[i] are the instances, cfg[k] the              *)
(* configuration objects, lastOp the last call made, with deprecations     *)
(* the deprecation calls it made.                                          *)

\* The record of a call: prev is the call made before it.
Op(name, i, key, arg, deprecations) ==
    [op |-> name, inst |-> i, key |-> key, arg |-> arg,
     deprecations |-> deprecations, prev |-> lastOp.op]

\* A call on instance i that leaves it as `after`; the bookkeeping of the
\* other instance is dropped.
Call(i, after) ==
    style' = [j \in Inst |-> IF j = i THEN after ELSE Fresh(style[j])]

CanCall(i) == nops < MaxOps /\ Exists(style[i])

\* Two configuration objects of identical content; instance 1 has been
\* constructed from the first and any of the observers have subscribed.
Init ==
    \E c \in Configs, subscribed \in SUBSET Obs :
        LET made == TextStyle(c)
        IN /\ style = [j \in Inst |->
                        IF j = 1 /\ Exists(made.inst)
                        THEN [made.inst EXCEPT !.listeners = subscribed]
                        ELSE IF j = 1 THEN made.inst ELSE Blank]
           /\ cfg = [k \in CfgIds |-> IF k = 1 THEN made.style ELSE c]
           /\ textures = [t \in TexIds |->
                            [calls |-> 0, sourceDestroyed |-> FALSE]]
           /\ lastOp = [op |-> "new", inst |-> 1, key |-> "", arg |-> 1,
                        deprecations |-> made.deprecations, prev |-> "none"]
           /\ nops = 0
           /\ scene = NoScene
           /\ view = NoView
           /\ heap = NoHeap

\* new TextStyle(cfg[k]) into the free slot i.
Construct(i, k) ==
    LET made == TextStyle(cfg[k])
    IN /\ nops < MaxOps
       /\ style[i].status = "none"
       /\ Call(i, made.inst)
       /\ cfg' = [cfg EXCEPT ![k] = made.style]
       /\ lastOp' = Op("new", i, "", k, made.deprecations)
       /\ nops' = nops + 1
       /\ UNCHANGED textures
       /\ UNCHANGED others

SetPlain(i, p, v) ==
    /\ CanCall(i)
    /\ Call(i, set_plain(Fresh(style[i]), p, v))
    /\ lastOp' = Op("set", i, p, v, <<>>)
    /\ nops' = nops + 1
    /\ UNCHANGED <<cfg, textures>>
    /\ UNCHANGED others

SetFontSize(i, v) ==
    /\ CanCall(i)
    /\ Call(i, set_fontSize(Fresh(style[i]), v))
    /\ lastOp' = Op("set", i, "fontSize", v, <<>>)
    /\ nops' = nops + 1
    /\ UNCHANGED <<cfg, textures>>
    /\ UNCHANGED others

SetDropShadow(i, v) ==
    /\ CanCall(i)
    /\ Call(i, set_dropShadow(Fresh(style[i]), v))
    /\ lastOp' = Op("set", i, "dropShadow", v, <<>>)
    /\ nops' = nops + 1
    /\ UNCHANGED <<cfg, textures>>
    /\ UNCHANGED others

SetFill(i, v) ==
    /\ CanCall(i)
    /\ Call(i, set_fill(Fresh(style[i]), v))
    /\ lastOp' = Op("set", i, "fill", v, <<>>)
    /\ nops' = nops + 1
    /\ UNCHANGED <<cfg, textures>>
    /\ UNCHANGED others

SetStroke(i, v) ==
    /\ CanCall(i)
    /\ Call(i, set_stroke(Fresh(style[i]), v))
    /\ lastOp' = Op("set", i, "stroke", v, <<>>)
    /\ nops' = nops + 1
    /\ UNCHANGED <<cfg, textures>>
    /\ UNCHANGED others

Update(i) ==
    /\ CanCall(i)
    /\ Call(i, update(Fresh(style[i])))
    /\ lastOp' = Op("update", i, "", Null, <<>>)
    /\ nops' = nops + 1
    /\ UNCHANGED <<cfg, textures>>
    /\ UNCHANGED others

Reset(i) ==
    /\ CanCall(i)
    /\ Call(i, reset(Fresh(style[i])))
    /\ lastOp' = Op("reset", i, "", Null, <<>>)
    /\ nops' = nops + 1
    /\ UNCHANGED <<cfg, textures>>
    /\ UNCHANGED others

\* A read of styleKey by the caller; arg is the string read.
ReadStyleKey(i) ==
    /\ CanCall(i)
    /\ Call(i, styleKey(Fresh(style[i])))
    /\ lastOp' = Op("styleKey", i, "", styleKey(style[i])._styleKey, <<>>)
    /\ nops' = nops + 1
    /\ UNCHANGED <<cfg, textures>>
    /\ UNCHANGED others

\* style[j] = style[i].clone(), j a free slot.
Clone(i, j) ==
    /\ CanCall(i)
    /\ style[j].status = "none"
    /\ style' = [x \in Inst |-> IF x = j THEN clone(style[i]).inst
                                ELSE Fresh(style[x])]
    /\ lastOp' = Op("clone", i, "", j, clone(style[i]).deprecations)
    /\ nops' = nops + 1
    /\ UNCHANGED <<cfg, textures>>
    /\ UNCHANGED others

Destroy(i, options) ==
    /\ CanCall(i)
    /\ Call(i, destroy(Fresh(style[i]), options, textures).inst)
    /\ textures' = destroy(Fresh(style[i]), options, textures).textures
    /\ lastOp' = Op("destroy", i, "", options, <<>>)
    /\ nops' = nops + 1
    /\ UNCHANGED cfg
    /\ UNCHANGED others

\* style[i].on('update', o)
On(i, o) ==
    /\ CanCall(i)
    /\ o \notin style[i].listeners
    /\ Call(i, [Fresh(style[i]) EXCEPT !.listeners = @ \cup {o}])
    /\ lastOp' = Op("on", i, "", o, <<>>)
    /\ nops' = nops + 1
    /\ UNCHANGED <<cfg, textures>>
    /\ UNCHANGED others

\* style[i].off('update', o)
Off(i, o) ==
    /\ CanCall(i)
    /\ o \in style[i].listeners
    /\ Call(i, [Fresh(style[i]) EXCEPT !.listeners = @ \ {o}])
    /\ lastOp' = Op("off", i, "", o, <<>>)
    /\ nops' = nops + 1
    /\ UNCHANGED <<cfg, textures>>
    /\ UNCHANGED others

Next ==
    \/ \E i \in Inst, k \in CfgIds : Construct(i, k)
    \/ \E i \in Inst, p \in SetterSample, v \in BOOLEAN :
          SetPlain(i, p, IF v THEN AltPlain[p] ELSE defaultTextStyle[p])
    \/ \E i \in Inst, v \in FontSizeInputs : SetFontSize(i, v)
    \/ \E i \in Inst, v \in DropShadowInputs : SetDropShadow(i, v)
    \/ \E i \in Inst, v \in FillInputs : SetFill(i, v)
    \/ \E i \in Inst, v \in StrokeInputs : SetStroke(i, v)
    \/ \E i \in Inst : Update(i)
    \/ \E i \in Inst : Reset(i)
    \/ \E i \in Inst : ReadStyleKey(i)
    \/ \E i \in Inst, j \in Inst : Clone(i, j)
    \/ \E i \in Inst, options \in DestroyInputs : Destroy(i, options)
    \/ \E i \in Inst, o \in Obs : On(i, o)
    \/ \E i \in Inst, o \in Obs : Off(i, o)

Spec == Init /\ [][Next]_vars

\* The migration on its own: two configuration objects of identical
\* content drawn from LegacyConfigs, no instance yet, and the constructor
\* as the only call.
MigrateInit ==
    \E c \in LegacyConfigs :
        /\ style = [j \in Inst |-> Blank]
        /\ cfg = [k \in CfgIds |-> c]
        /\ textures = [t \in TexIds |->
                         [calls |-> 0, sourceDestroyed |-> FALSE]]
        /\ lastOp = [op |-> "none", inst |-> 1, key |-> "", arg |-> 1,
                     deprecations |-> <<>>, prev |-> "none"]
        /\ nops = 0
        /\ scene = NoScene
        /\ view = NoView
        /\ heap = NoHeap

MigrateNext == \E i \in Inst, k \in CfgIds : Construct(i, k)

MigrateSpec == MigrateInit /\ [][MigrateNext]_vars

----------------------------------------------------------------------------
(* Properties.                                                             *)

\* The string a read of styleKey returns in the current state.
Key(st) == styleKey(st)._styleKey

\* The instance the last call was made on, and the other one.
Target == style[lastOp.inst]

Other(i) == 3 - i

\* An observer o of st received exactly n notifications in the last call
\* when subscribed, and none otherwise.
Delivered(st, subscribed, n) ==
    \A o \in Obs : st.delivered[o] = IF o \in subscribed THEN n ELSE 0

\* C1. No stale key: in every reachable state the cached key of an
\* instance is null or the key the generator computes from its current
\* fields; this covers the keys cached by an observer that reads styleKey
\* inside the update callback.
C1_NoStaleKey ==
    \A i \in Inst :
        Exists(style[i]) =>
            \/ ~HasKey(style[i])
            \/ style[i]._styleKey = generateTextStyleKey(style[i])

\* C1 witness: a setter has run on an instance observed by the reader,
\* which cached the key of the new state inside the callback.
C1_Witness ==
    /\ lastOp.op = "set"
    /\ lastOp.key = "fontSize"
    /\ "reader" \in Target.listeners
    /\ Target.emits = 1
    /\ Target._styleKey = generateTextStyleKey(Target)

\* C2. Memoization: of two consecutive reads of styleKey on one instance
\* the second returns the string the first returned and does not call the
\* key generator.
C2_Memoized ==
    [][(/\ lastOp.op = "styleKey"
        /\ lastOp'.op = "styleKey"
        /\ lastOp'.inst = lastOp.inst
        /\ nops' = nops + 1)
       => /\ lastOp'.arg = lastOp.arg
          /\ style'[lastOp.inst].genCalls = 0]_vars

\* C2 witness: a second consecutive read that found the key cached.
C2_Witness ==
    /\ lastOp.op = "styleKey"
    /\ lastOp.prev = "styleKey"
    /\ Target.genCalls = 0
    /\ lastOp.arg = generateTextStyleKey(Target)

\* C3 as stated: every setter call, whatever its argument, makes exactly
\* one update() call, which clears the key and notifies each subscribed
\* observer once.
C3_Original ==
    lastOp.op = "set" =>
        /\ Target.emits = 1
        /\ Delivered(Target, Target.listeners, 1)

\* The call assigns to fill or stroke the very value the setter retained.
SameRaw(st, key, arg) ==
    \/ key = "fill" /\ arg = st._originalFill
    \/ key = "stroke" /\ arg = st._originalStroke

\* The call assigns a paint the converter rejects.
Rejected(key, arg) ==
    /\ key \in {"fill", "stroke"}
    /\ convertFillInputToFillStyle(arg, defaultStrokeStyle) = Unsupported

\* C3 amended: a setter call makes exactly one update() call, which clears
\* the key and notifies each subscribed observer once, with two exceptions
\* in the fill and stroke setters: a call whose argument is identical to
\* the retained raw value does nothing at all, and a call whose argument
\* the converter rejects throws after retaining the raw value; in both the
\* key stays and nobody is notified.
C3_Amended ==
    [][(lastOp'.op = "set" /\ nops' = nops + 1) =>
        LET i == lastOp'.inst
        IN IF SameRaw(style[i], lastOp'.key, lastOp'.arg)
           THEN style'[i] = Fresh(style[i])
           ELSE IF Rejected(lastOp'.key, lastOp'.arg)
           THEN /\ style'[i].threw
                /\ style'[i].emits = 0
                /\ Delivered(style'[i], style[i].listeners, 0)
                /\ style'[i]._styleKey = style[i]._styleKey
           ELSE /\ style'[i].emits = 1
                /\ Delivered(style'[i], style[i].listeners, 1)
                /\ style'[i]._styleKey =
                      IF "reader" \in style[i].listeners
                      THEN generateTextStyleKey(style'[i])
                      ELSE Null]_vars

\* C3 witness: a fill call with a new value, both observers notified once.
C3_Witness ==
    /\ lastOp.op = "set"
    /\ lastOp.key = "fill"
    /\ Target.listeners = Obs
    /\ Target.emits = 1
    /\ Delivered(Target, Obs, 1)

\* C4 as stated: reset() notifies each subscribed observer once per
\* default property, 19 times, whatever the properties held.
C4_Original ==
    lastOp.op = "reset" =>
        Delivered(Target, Target.listeners, Len(DefaultKeys))

\* The notifications of one reset() from st: the 17 properties other than
\* fill and stroke, plus fill and stroke when the retained raw value is
\* not already the default.
ResetNotifications(st) ==
    (Len(DefaultKeys) - 2)
    + (IF st._originalFill # defaultTextStyle.fill THEN 1 ELSE 0)
    + (IF st._originalStroke # defaultTextStyle.stroke THEN 1 ELSE 0)

\* C4 amended: reset() notifies each subscribed observer once per default
\* property other than fill and stroke, and once more for fill (stroke)
\* only when the retained raw fill (stroke) is not already the default.
C4_Amended ==
    [][(lastOp'.op = "reset" /\ nops' = nops + 1) =>
        LET i == lastOp'.inst
        IN /\ style'[i].emits = ResetNotifications(style[i])
           /\ Delivered(style'[i], style[i].listeners,
                        ResetNotifications(style[i]))]_vars

\* C4 witness: a reset observed by both observers in which exactly one of
\* fill and stroke was already the default.
C4_Witness ==
    /\ lastOp.op = "reset"
    /\ Target.listeners = Obs
    /\ Delivered(Target, Obs, Len(DefaultKeys) - 1)

\* The style key of new TextStyle().
DefaultKey == Key(TextStyle([k \in {} |-> Null]).inst)

\* C5. After reset() on a live instance every getter returns the default
\* of TextStyle.defaultTextStyle and styleKey is the key of a freshly
\* constructed default style.
C5_ResetRestoresDefaults ==
    (lastOp.op = "reset" /\ Target.status = "live") =>
        /\ \A p \in StyleProps : Get(Target, p) = defaultTextStyle[p]
        /\ Key(Target) = DefaultKey

\* C5 witness: a reset that had both paints to restore.
C5_Witness ==
    /\ lastOp.op = "reset"
    /\ Target.status = "live"
    /\ Target.emits = Len(DefaultKeys)

\* C6 as stated: a second instance constructed from a configuration
\* identical to that of a constructed first instance, be it the same
\* configuration object or another one of the same content, exists and has
\* the first one's style key.
C6_Original ==
    (/\ lastOp.op = "new"
     /\ lastOp.inst = 2
     /\ lastOp.prev = "new"
     /\ style[1].status = "live")
    => /\ style[2].status = "live"
       /\ Key(style[2]) = Key(style[1])

\* Two live instances right after the second was constructed from the
\* configuration of the first, with equal keys.
TwinsConstructed ==
    /\ lastOp.op = "new"
    /\ lastOp.inst = 2
    /\ lastOp.prev = "new"
    /\ style[1].status = "live"
    /\ style[2].status = "live"
    /\ Key(style[1]) = Key(style[2])

\* C7 as stated: from two such instances, a setter call on one of them
\* with a value other than the one the property reads back makes the keys
\* differ.
C7_Original ==
    [][(/\ TwinsConstructed
        /\ lastOp'.op = "set"
        /\ lastOp'.arg # Get(style[lastOp'.inst], lastOp'.key))
       => Key(style'[1]) # Key(style'[2])]_vars

\* What a setter makes of its argument before storing it.
NormalForm(key, arg) ==
    CASE key = "fontSize" ->
            IF "chars" \in DOMAIN arg THEN parseInt(arg.chars) ELSE arg
      [] key = "fill" ->
            convertFillInputToFillStyle(
                IF arg = [num |-> 0] THEN [str |-> "black"] ELSE arg,
                defaultFillStyle)
      [] key = "stroke" -> convertFillInputToFillStyle(arg, defaultStrokeStyle)
      [] key = "dropShadow" ->
            IF arg # Null /\ "shadow" \in DOMAIN arg THEN MergeShadow(arg.shadow)
            ELSE IF arg = [bool |-> TRUE] THEN defaultDropShadow
            ELSE Null
      [] OTHER -> arg

\* The stored form the property holds.
Stored(st, key) ==
    CASE key = "fill" -> st._fill
      [] key = "stroke" -> st._stroke
      [] OTHER -> Get(st, key)

\* C7 amended: from two such instances, a setter call on one of them
\* whose argument the setter accepts and which, once normalized by the
\* setter (parseInt for a fontSize string, the resolved descriptor for a
\* paint, the completed record or null for a drop shadow), differs from
\* the stored form of the property makes the keys differ.
C7_Amended ==
    [][(/\ TwinsConstructed
        /\ lastOp'.op = "set"
        /\ ~Rejected(lastOp'.key, lastOp'.arg)
        /\ NormalForm(lastOp'.key, lastOp'.arg)
              # Stored(style[lastOp'.inst], lastOp'.key))
       => Key(style'[1]) # Key(style'[2])]_vars

\* C7 witness: after the twins, a fontSize call that changed the size.
C7_Witness ==
    /\ lastOp.op = "set"
    /\ lastOp.prev = "new"
    /\ lastOp.key = "fontSize"
    /\ style[1].status = "live"
    /\ style[2].status = "live"
    /\ Key(style[1]) # Key(style[2])

\* C8 as stated: every property read from a clone equals the property
\* read from the original.
C8_Original ==
    (lastOp.op = "clone" /\ style[lastOp.arg].status = "live") =>
        \A p \in StyleProps : Get(style[lastOp.arg], p) = Get(Target, p)

\* C9 as stated: the style key of a clone is the style key of the original.
C9_Original ==
    (lastOp.op = "clone" /\ style[lastOp.arg].status = "live") =>
        Key(style[lastOp.arg]) = Key(Target)

AsksTexture(options) ==
    \/ options = [bool |-> TRUE]
    \/ "texture" \in DOMAIN options /\ options.texture = [bool |-> TRUE]

AsksTextureSource(options) ==
    \/ options = [bool |-> TRUE]
    \/ "textureSource" \in DOMAIN options
          /\ options.textureSource = [bool |-> TRUE]

\* The textures of the resolved fill and stroke of st.
PaintTextures(st) ==
    {t \in TexIds : \E n \in 1..Len(TextureOf(st._fill) \o TextureOf(st._stroke)) :
                        (TextureOf(st._fill) \o TextureOf(st._stroke))[n] = t}

\* C11. destroy releases textures only on request: a call that does not
\* ask for the textures leaves every texture alone; a call that asks for
\* them calls destroy on the texture of the fill and of the stroke and on
\* no other texture, and a texture source is destroyed only when the
\* argument is true or options.textureSource is true.
C11_DestroyTextureOptions ==
    [][(lastOp'.op = "destroy" /\ nops' = nops + 1) =>
        LET st == style[lastOp'.inst]
            options == lastOp'.arg
        IN /\ ~AsksTexture(options) => textures' = textures
           /\ AsksTexture(options) =>
                \A t \in TexIds :
                    /\ t \in PaintTextures(st) <=>
                          textures'[t].calls > textures[t].calls
                    /\ t \in PaintTextures(st) =>
                          textures'[t].sourceDestroyed =
                            (textures[t].sourceDestroyed
                                \/ AsksTextureSource(options))
                    /\ t \notin PaintTextures(st) =>
                          textures'[t] = textures[t]]_vars

\* C11 witness: destroy({texture: true}) on a style whose fill carries the
\* texture T1 released it and kept its source.
C11_Witness ==
    /\ lastOp.op = "destroy"
    /\ lastOp.arg = [texture |-> [bool |-> TRUE]]
    /\ textures["T1"].calls > 0
    /\ ~textures["T1"].sourceDestroyed

\* C24 as stated: one destroy call that asks for the textures calls destroy
\* at most once on each texture, also when the raw input and the resolved
\* descriptor of the fill (or of the stroke) carry the same texture.
C24_Original ==
    [][(lastOp'.op = "destroy" /\ nops' = nops + 1) =>
        \A t \in TexIds : textures'[t].calls <= textures[t].calls + 1]_vars

\* C12. destroy is idempotent: a destroy call that follows a destroy call
\* on the same instance, whatever the options of either, does not throw,
\* calls destroy on no texture, notifies no observer and leaves every field
\* of the instance as the first call left it.
C12_DestroyIdempotent ==
    [][(/\ lastOp.op = "destroy"
        /\ lastOp'.op = "destroy"
        /\ lastOp'.inst = lastOp.inst
        /\ nops' = nops + 1)
       => LET i == lastOp.inst
          IN /\ ~style'[i].threw
             /\ textures' = textures
             /\ style'[i].delivered = NoDelivery
             /\ Fields(style'[i]) = Fields(style[i])]_vars

\* C12 witness: destroy(true) has run a second time on an instance that
\* held the texture T1 and had observers before the first call.
C12_Witness ==
    /\ lastOp.op = "destroy"
    /\ lastOp.prev = "destroy"
    /\ lastOp.arg = [bool |-> TRUE]
    /\ style[2].status = "none"
    /\ style[1].status = "destroyed"
    /\ textures["T1"].calls > 0

\* C25. destroy notifies nobody: the call runs the dropShadow setter and
\* with it update once, yet it delivers no notification, since the observers
\* were detached first; it leaves no observer subscribed, and in every state
\* a call has delivered only to observers that are subscribed, so an
\* observer subscribed before a destroy gets nothing during it or after it.
C25_DestroyNotifiesNobody ==
    /\ \A i \in Inst : \A o \in Obs :
          style[i].delivered[o] > 0 => o \in style[i].listeners
    /\ lastOp.op = "destroy" =>
          /\ Target.emits = 1
          /\ Target.delivered = NoDelivery
          /\ Target.seen = Undefined
          /\ Target.listeners = {}

\* C25 witness: an observer subscribed to instance 1, the only instance,
\* and the next call destroyed it without a delivery.
C25_Witness ==
    /\ lastOp.op = "destroy"
    /\ lastOp.prev = "on"
    /\ lastOp.inst = 1
    /\ style[2].status = "none"
    /\ style[1].emits = 1
    /\ style[1].delivered = NoDelivery

\* C13. Once destroy has returned, whatever the state it was called in and
\* whatever its options, the instance has no subscribed observer, its
\* resolved and its retained raw fill and stroke are null, its drop shadow
\* is null and its cached key is null.
C13_DestroyedState ==
    lastOp.op = "destroy" =>
        /\ Target.status = "destroyed"
        /\ ~Target.threw
        /\ Target.listeners = {}
        /\ Target._fill = Null
        /\ Target._stroke = Null
        /\ Target._originalFill = Null
        /\ Target._originalStroke = Null
        /\ Target._dropShadow = Null
        /\ Target._styleKey = Null

\* C13 witness: destroy has run on an instance right after an observer
\* subscribed to it.
C13_Witness ==
    /\ lastOp.op = "destroy"
    /\ lastOp.prev = "on"
    /\ lastOp.inst = 1
    /\ style[2].status = "none"
    /\ style[1].listeners = {}
    /\ style[1]._originalFill = Null

\* The value of a sibling field of configuration c, or the documented
\* default when c does not carry it.
Sibling(c, k, documented) == IF k \in DOMAIN c THEN c[k] ELSE documented

\* C14. Legacy drop-shadow migration: constructing from dropShadow === true
\* and any subset of the sibling fields gives an instance, and an instance
\* constructed from any configuration with dropShadow === true holds a
\* drop-shadow record whose every field is the sibling value when the
\* configuration carries it and the documented default (alpha 1, angle
\* PI/6, blur 0, color 'black', distance 5) otherwise.
C14_ShadowMigration ==
    [][(/\ lastOp'.op = "new"
        /\ nops' = nops + 1
        /\ "dropShadow" \in DOMAIN cfg[lastOp'.arg]
        /\ cfg[lastOp'.arg].dropShadow = [bool |-> TRUE])
       => LET c == cfg[lastOp'.arg]
              made == style'[lastOp'.inst]
          IN /\ DOMAIN c \subseteq {"dropShadow"} \cup DOMAIN SiblingValue
                    => made.status = "live"
             /\ made.status = "live" =>
                  made._dropShadow =
                    [alpha |-> Sibling(c, "dropShadowAlpha", 1),
                     angle |-> Sibling(c, "dropShadowAngle", 30),
                     blur |-> Sibling(c, "dropShadowBlur", 0),
                     color |-> Sibling(c, "dropShadowColor", "black"),
                     distance |-> Sibling(c, "dropShadowDistance", 5)]]_vars

\* C14 witness: { dropShadow: true, dropShadowBlur: 4 } has been
\* constructed: blur 4, every other field the default.
C14_Witness ==
    /\ lastOp.op = "new"
    /\ nops = 1
    /\ DOMAIN cfg[2] = {"dropShadow", "dropShadowBlur"}
    /\ cfg[2].dropShadow = [bool |-> TRUE]
    /\ Target.status = "live"
    /\ Target._dropShadow =
          [alpha |-> 1, angle |-> 30, blur |-> 4, color |-> "black",
           distance |-> 5]

\* The ratios of the color stops of the gradient fill an instance holds.
StopRatios(st) ==
    [x \in 1..Len(st._fill.dfill.gstops) |-> st._fill.dfill.gstops[x].ratio]

\* C15 as stated: constructing from an array fill of n colors and no
\* fillGradientStops completes and gives a gradient fill of n stops, stop
\* i (from 0) at ratio i / n.
C15_Original ==
    [][(/\ lastOp'.op = "new"
        /\ nops' = nops + 1
        /\ HasArrayFill(cfg[lastOp'.arg])
        /\ "fillGradientStops" \notin DOMAIN cfg[lastOp'.arg])
       => LET n == Len(cfg[lastOp'.arg].fill.array)
          IN /\ style'[lastOp'.inst].status = "live"
             /\ StopRatios(style'[lastOp'.inst]) =
                   [x \in 1..n |-> [n |-> x - 1, d |-> n]]]_vars

\* C16. A stop list of any length is accepted: constructing from an array
\* fill of n colors and a fillGradientStops list shorter than, as long as
\* or longer than n completes, and stop i (from 0) has the ratio
\* fillGradientStops[i] when the list has that entry and i / n otherwise.
C16_StopMismatch ==
    [][(/\ lastOp'.op = "new"
        /\ nops' = nops + 1
        /\ HasArrayFill(cfg[lastOp'.arg])
        /\ "fillGradientStops" \in DOMAIN cfg[lastOp'.arg])
       => LET c == cfg[lastOp'.arg]
              n == Len(c.fill.array)
          IN /\ style'[lastOp'.inst].status = "live"
             /\ StopRatios(style'[lastOp'.inst]) =
                   [x \in 1..n |->
                        IF x <= Len(c.fillGradientStops)
                        THEN c.fillGradientStops[x]
                        ELSE [n |-> x - 1, d |-> n]]]_vars

\* C16 witness: three colors with a list of one stop have been
\* constructed: the first ratio is the listed one, the others 1/3 and 2/3.
C16_Witness ==
    /\ lastOp.op = "new"
    /\ Target.status = "live"
    /\ Target._fill # Null
    /\ Target._fill.dfill # Null
    /\ StopRatios(Target) =
          <<StopList[1], [n |-> 1, d |-> 3], [n |-> 2, d |-> 3]>>

\* The legacy paths a construction from configuration c takes: the boolean
\* drop shadow, strokeThickness, the array fill.
PathsTaken(c) ==
    (IF "dropShadow" \in DOMAIN c /\ c.dropShadow = [bool |-> TRUE]
     THEN {"dropShadow"} ELSE {})
    \cup (IF "strokeThickness" \in DOMAIN c /\ c.strokeThickness # [num |-> 0]
          THEN {"strokeThickness"} ELSE {})
    \cup (IF "fill" \in DOMAIN c /\ "array" \in DOMAIN c.fill
          THEN {"fill"} ELSE {})

\* C17 as stated: a construction calls the deprecation sink at least once
\* for each legacy path it takes, and not at all when it takes none.
C17_Original ==
    [][(lastOp'.op = "new" /\ nops' = nops + 1) =>
        /\ Len(lastOp'.deprecations)
              >= Cardinality(PathsTaken(cfg[lastOp'.arg]))
        /\ PathsTaken(cfg[lastOp'.arg]) = {} =>
              lastOp'.deprecations = <<>>]_vars

\* C18. A redundant paint assignment is skipped: a fill (stroke) call with
\* the very value the setter retained does not call the paint converter
\* and leaves the resolved paint, the retained value and the cached key as
\* they were; and after any fill (stroke) call the getter returns the value
\* assigned, not the resolved paint, fill = 0 being resolved as 'black'.
C18_RedundantPaintSkipped ==
    [][(/\ lastOp'.op = "set"
        /\ lastOp'.key \in {"fill", "stroke"}
        /\ nops' = nops + 1)
       => LET i == lastOp'.inst
              v == lastOp'.arg
          IN /\ SameRaw(style[i], lastOp'.key, v) =>
                    /\ style'[i].convCalls = 0
                    /\ Fields(style'[i]) = Fields(style[i])
             /\ Get(style'[i], lastOp'.key) = v
             /\ (lastOp'.key = "fill" /\ v = [num |-> 0]) =>
                    style'[i]._fill =
                        convertFillInputToFillStyle([str |-> "black"],
                                                    defaultFillStyle)]_vars

\* C18 witness: fill = 0 has been assigned to an instance that retained 0:
\* nothing ran, the getter reads 0 and the resolved paint is black.
C18_Witness ==
    /\ lastOp.op = "set"
    /\ lastOp.key = "fill"
    /\ lastOp.arg = [num |-> 0]
    /\ lastOp.prev = "set"
    /\ ~Target.threw
    /\ Target.emits = 0
    /\ Target.convCalls = 0
    /\ Get(Target, "fill") = [num |-> 0]
    /\ Target._fill.dcolor = 0

\* C19. Notification ordering: the notification of a setter call is
\* delivered inside the call, after the value is stored and the key
\* cleared: the observer that reads in its callback finds the new value
\* stored and no cached key, reads the key of the state the call ends in,
\* and the call changes nothing after the callback; a call that mutates
\* nothing (a styleKey read, on, off) delivers no notification.
C19_NotificationOrdering ==
    [][/\ (/\ lastOp'.op = "set"
           /\ nops' = nops + 1
           /\ ~SameRaw(style[lastOp'.inst], lastOp'.key, lastOp'.arg)
           /\ ~Rejected(lastOp'.key, lastOp'.arg)
           /\ "reader" \in style[lastOp'.inst].listeners)
          => LET after == style'[lastOp'.inst]
             IN /\ after.delivered["reader"] = 1
                /\ after.seen.fields._styleKey = Null
                /\ Stored(after.seen.fields, lastOp'.key)
                      = NormalForm(lastOp'.key, lastOp'.arg)
                /\ after.seen.key = generateTextStyleKey(after)
                /\ Fields(after) =
                      [after.seen.fields EXCEPT !._styleKey = after.seen.key]
       /\ (lastOp'.op \in {"styleKey", "on", "off"} /\ nops' = nops + 1)
          => \A j \in Inst : style'[j].delivered = NoDelivery]_vars

\* C19 witness: fontSize = 36 has been assigned to an instance at 26 with
\* the reader subscribed, which found 36 stored and read the new key.
C19_Witness ==
    /\ lastOp.op = "set"
    /\ lastOp.key = "fontSize"
    /\ lastOp.arg = [num |-> 36]
    /\ Target.seen # Undefined
    /\ Target.seen.fields.props["fontSize"] = [num |-> 36]
    /\ Target.seen.fields._styleKey = Null
    /\ Target.seen.key = generateTextStyleKey(Target)
    /\ Target.seen.key.kprops["fontSize"] = [num |-> 36]

\* The digits of a string, every other character stripped, read in base 10.
StripNonDigits(s) == DigitsValue(SelectSeq(s, IsDigit), 0)

\* C20 as stated: a fontSize call with a string stores the number made of
\* the digits of the string, every non-digit character stripped ('26px'
\* gives 26, '1.6em' gives 16); a call with a number stores the number.
C20_Original ==
    (lastOp.op = "set" /\ lastOp.key = "fontSize") =>
        Target.props["fontSize"] =
            IF "chars" \in DOMAIN lastOp.arg
            THEN [num |-> StripNonDigits(lastOp.arg.chars)]
            ELSE lastOp.arg

----------------------------------------------------------------------------
(* findMixin (src/unnamed/part_000): the search of a container tree by     *)
(* label.  Node 0 is the receiver; parent[n] < n and the children of a     *)
(* node are in increasing order, which numbers every ordered tree.  A      *)
(* label is a string, given by its characters.  The label looked for is a  *)
(* string [str |-> chars] or a RegExp of one literal character             *)
(* [re |-> char, global |-> flag]; the RegExp with the g flag is one       *)
(* object, whose lastIndex is part of the state.                           *)

\* Bound on the number of containers below the receiver.
MaxNodes == 3

Nodes == 0..MaxNodes

ChildLabels == {<<"a">>, <<"b">>}

\* The value returned when nothing is found: null.
NoNode == -1

\* this.children of node n.
children(sc, n) ==
    SelectSeq([m \in 1..MaxNodes |-> m], LAMBDA m : sc.parent[m] = n)

\* The first position after from (counted from 0) at which s holds c, or 0.
RECURSIVE IndexOfFrom(_, _, _)
IndexOfFrom(s, c, from) ==
    IF from >= Len(s) THEN 0
    ELSE IF s[from + 1] = c THEN from + 1
    ELSE IndexOfFrom(s, c, from + 1)

\* RegExp.prototype.test: a RegExp with the g flag searches from lastIndex
\* and leaves lastIndex after the match, or at 0 when there is none.
test(re, s, lastIndex) ==
    LET at == IndexOfFrom(s, re.re, IF re.global THEN lastIndex ELSE 0)
    IN [ok |-> at > 0,
        lastIndex |-> IF re.global THEN at ELSE lastIndex]

\* child.label === label || (label instanceof RegExp && label.test(child.label))
Matches(label, childLabel, lastIndex) ==
    IF "str" \in DOMAIN label
    THEN [ok |-> childLabel = label.str, lastIndex |-> lastIndex]
    ELSE test(label, childLabel, lastIndex)

\* The first loop of getChildByLabel over the children kids.
RECURSIVE FirstMatch(_, _, _, _)
FirstMatch(sc, kids, label, lastIndex) ==
    IF kids = <<>> THEN [found |-> NoNode, lastIndex |-> lastIndex]
    ELSE LET t == Matches(label, sc.label[Head(kids)], lastIndex)
         IN IF t.ok THEN [found |-> Head(kids), lastIndex |-> t.lastIndex]
            ELSE FirstMatch(sc, Tail(kids), label, t.lastIndex)

RECURSIVE getChildByLabel(_, _, _, _, _)
RECURSIVE DeepFirst(_, _, _, _)

\* The second loop of getChildByLabel: the recursive search, child by child.
DeepFirst(sc, kids, label, lastIndex) ==
    IF kids = <<>> THEN [found |-> NoNode, lastIndex |-> lastIndex]
    ELSE LET r == getChildByLabel(sc, Head(kids), label, TRUE, lastIndex)
         IN IF r.found # NoNode THEN r
            ELSE DeepFirst(sc, Tail(kids), label, r.lastIndex)

\* findMixin.getChildByLabel on node n: the node found and the lastIndex
\* the RegExp is left with.
getChildByLabel(sc, n, label, deep, lastIndex) ==
    LET direct == FirstMatch(sc, children(sc, n), label, lastIndex)
    IN IF direct.found # NoNode THEN direct
       ELSE IF deep THEN DeepFirst(sc, children(sc, n), label, direct.lastIndex)
       ELSE direct

\* The first loop of getChildrenByLabel: out.push(child) for each match.
RECURSIVE PushMatches(_, _, _, _, _)
PushMatches(sc, kids, label, out, lastIndex) ==
    IF kids = <<>> THEN [out |-> out, lastIndex |-> lastIndex]
    ELSE LET t == Matches(label, sc.label[Head(kids)], lastIndex)
         IN PushMatches(sc, Tail(kids), label,
                        IF t.ok THEN Append(out, Head(kids)) ELSE out,
                        t.lastIndex)

RECURSIVE getChildrenByLabel(_, _, _, _, _, _)
RECURSIVE DeepAll(_, _, _, _, _)

\* The second loop of getChildrenByLabel: the recursion, child by child.
DeepAll(sc, kids, label, out, lastIndex) ==
    IF kids = <<>> THEN [out |-> out, lastIndex |-> lastIndex]
    ELSE LET r == getChildrenByLabel(sc, Head(kids), label, TRUE, out,
                                     lastIndex)
         IN DeepAll(sc, Tail(kids), label, r.out, r.lastIndex)

\* findMixin.getChildrenByLabel on node n: out and lastIndex afterwards.
getChildrenByLabel(sc, n, label, deep, out, lastIndex) ==
    LET direct == PushMatches(sc, children(sc, n), label, out, lastIndex)
    IN IF deep
       THEN DeepAll(sc, children(sc, n), label, direct.out, direct.lastIndex)
       ELSE direct

\* The labels looked for, and the prior contents of out.
LabelInputs ==
    {[str |-> <<"a">>], [str |-> <<"b">>],
     [re |-> "a", global |-> FALSE], [re |-> "a", global |-> TRUE]}

OutInputs == {<<>>, <<0>>}

\* Every tree of MaxNodes containers below the receiver, every labelling.
FindInit ==
    /\ \E parent \in [1..MaxNodes -> Nodes], label \in [1..MaxNodes -> ChildLabels] :
          /\ \A n \in 1..MaxNodes : parent[n] < n
          /\ \A n \in 2..MaxNodes : parent[n - 1] <= parent[n]
          /\ scene = [parent |-> parent, label |-> label, lastIndex |-> 0,
                      call |-> "none", labelArg |-> [str |-> <<>>],
                      deep |-> FALSE, outArg |-> <<>>, found |-> NoNode,
                      out |-> <<>>]
    /\ style = [j \in Inst |-> Blank]
    /\ cfg = [k \in CfgIds |-> [x \in {} |-> Null]]
    /\ textures = [t \in TexIds |-> [calls |-> 0, sourceDestroyed |-> FALSE]]
    /\ lastOp = [op |-> "none", inst |-> 1, key |-> "", arg |-> 1,
                 deprecations |-> <<>>, prev |-> "none"]
    /\ nops = 0
    /\ view = NoView
    /\ heap = NoHeap

\* receiver.getChildByLabel(label, deep)
GetChildByLabel(label, deep) ==
    LET r == getChildByLabel(scene, 0, label, deep, scene.lastIndex)
    IN /\ nops < MaxOps
       /\ scene' = [scene EXCEPT !.call = "getChildByLabel",
                                 !.labelArg = label, !.deep = deep,
                                 !.outArg = <<>>, !.found = r.found,
                                 !.out = <<>>, !.lastIndex = r.lastIndex]
       /\ nops' = nops + 1
       /\ UNCHANGED <<style, cfg, textures, lastOp, view, heap>>

\* receiver.getChildrenByLabel(label, deep, out)
GetChildrenByLabel(label, deep, out) ==
    LET r == getChildrenByLabel(scene, 0, label, deep, out, scene.lastIndex)
    IN /\ nops < MaxOps
       /\ scene' = [scene EXCEPT !.call = "getChildrenByLabel",
                                 !.labelArg = label, !.deep = deep,
                                 !.outArg = out, !.found = NoNode,
                                 !.out = r.out, !.lastIndex = r.lastIndex]
       /\ nops' = nops + 1
       /\ UNCHANGED <<style, cfg, textures, lastOp, view, heap>>

FindNext ==
    \/ \E label \in LabelInputs, deep \in BOOLEAN : GetChildByLabel(label, deep)
    \/ \E label \in LabelInputs, deep \in BOOLEAN, out \in OutInputs :
          GetChildrenByLabel(label, deep, out)

FindSpec == FindInit /\ [][FindNext]_vars

\* The containers below node n in pre-order: each child, then what is
\* below it, child by child.
RECURSIVE PreOrder(_, _)
RECURSIVE PreOrderOf(_, _)
PreOrderOf(sc, kids) ==
    IF kids = <<>> THEN <<>>
    ELSE <<Head(kids)>> \o PreOrder(sc, Head(kids)) \o PreOrderOf(sc, Tail(kids))

PreOrder(sc, n) == PreOrderOf(sc, children(sc, n))

\* A container label equals the string looked for, or matches the RegExp.
LabelMatches(label, childLabel) ==
    IF "str" \in DOMAIN label THEN childLabel = label.str
    ELSE \E k \in 1..Len(childLabel) : childLabel[k] = label.re

\* The containers of a sequence whose label matches, in order.
Matching(sc, nodes, label) ==
    SelectSeq(nodes, LAMBDA m : LabelMatches(label, sc.label[m]))

\* C21 as stated: getChildByLabel(label, true) returns the first container
\* of the receiver's subtree in pre-order whose label matches, and null
\* when none matches.
C21_Original ==
    (scene # NoScene /\ scene.call = "getChildByLabel" /\ scene.deep) =>
        LET hits == Matching(scene, PreOrder(scene, 0), scene.labelArg)
        IN scene.found = IF hits = <<>> THEN NoNode ELSE Head(hits)

\* The number of times node m occurs in a sequence of nodes.
Occurrences(nodes, m) == Cardinality({k \in DOMAIN nodes : nodes[k] = m})

\* C22 as stated: getChildrenByLabel(label, deep, out) returns out with its
\* prior contents followed by exactly the matching containers: without
\* deep the matching direct children in child order, with deep every
\* matching container below the receiver once each; never the receiver.
C22_Original ==
    (scene # NoScene /\ scene.call = "getChildrenByLabel") =>
        LET prior == scene.outArg
            added == SubSeq(scene.out, Len(prior) + 1, Len(scene.out))
        IN /\ Len(scene.out) >= Len(prior)
           /\ SubSeq(scene.out, 1, Len(prior)) = prior
           /\ Occurrences(added, 0) = 0
           /\ ~scene.deep =>
                added = Matching(scene, children(scene, 0), scene.labelArg)
           /\ scene.deep =>
                \A m \in 1..MaxNodes :
                    Occurrences(added, m) =
                        IF LabelMatches(scene.labelArg, scene.label[m])
                        THEN 1 ELSE 0

\* ---------------------------------------------------------------------
\* ViewSystem: the main canvas, its texture and its CSS size.
\* ---------------------------------------------------------------------

\* ViewSystem.defaultOptions
defaultOptions ==
    [width |-> 800, height |-> 600, autoDensity |-> FALSE, antialias |-> FALSE]

\* { ...a, ...b }: the properties of b win over those of a.
Spread(a, b) ==
    [k \in DOMAIN a \cup DOMAIN b |-> IF k \in DOMAIN b THEN b[k] ELSE a[k]]

\* `${n}px`
Px(n) == [px |-> n]

\* A CSS property of the canvas nobody has written.
Unset == [unset |-> TRUE]

\* The options init is called with: width, height and autoDensity are
\* optional.
ViewOptions ==
    { Spread(Spread(Spread([resolution |-> r], w), h), a) :
        r \in {1, 2},
        w \in {[x \in {} |-> 0], [width |-> 2]},
        h \in {[x \in {} |-> 0], [height |-> 3]},
        a \in {[x \in {} |-> FALSE], [autoDensity |-> TRUE],
               [autoDensity |-> FALSE]} }

\* The sizes and resolutions resize is called with.
ViewSizes == {1, 2}

\* A ViewSystem after construction: no field has a value.  The last call,
\* its arguments, whether it threw and whether it wrote a CSS size are
\* kept for the properties; initOptions is what init was last given.
NewView ==
    [ autoDensity |-> Undefined,
      inited      |-> FALSE,
      screen      |-> Undefined,
      source      |-> Undefined,
      cssWidth    |-> Unset,
      cssHeight   |-> Unset,
      attached    |-> TRUE,
      initOptions |-> [x \in {} |-> 0],
      call        |-> "none",
      args        |-> <<>>,
      threw       |-> FALSE,
      wrote       |-> FALSE ]

\* this.autoDensity as a condition: undefined is falsy.
AutoDensityOn(v) == "bool" \in DOMAIN v.autoDensity /\ v.autoDensity.bool

\* view.init(options).  The canvas texture takes the size and, with the
\* last statement, the resolution of the merged options; this.autoDensity
\* is read but assigned nowhere.
init(options) ==
    LET o    == Spread(defaultOptions, options)
        src  == [width |-> o.width, height |-> o.height, resolution |-> o.resolution]
        auto == AutoDensityOn(view)
    IN /\ view # NoView
       /\ nops < MaxOps
       /\ view' = [view EXCEPT
                     !.inited = TRUE,
                     !.screen = [width |-> o.width, height |-> o.height],
                     !.source = src,
                     !.cssWidth  = IF auto THEN Px(src.width) ELSE @,
                     !.cssHeight = IF auto THEN Px(src.height) ELSE @,
                     !.initOptions = options,
                     !.call = "init", !.args = <<>>,
                     !.threw = FALSE, !.wrote = auto]
       /\ nops' = nops + 1
       /\ UNCHANGED <<style, cfg, textures, lastOp, scene, heap>>

\* view.resize(desiredScreenWidth, desiredScreenHeight, resolution).
\* Before init this.texture is undefined and the first statement throws.
resize(desiredScreenWidth, desiredScreenHeight, resolution) ==
    LET auto == AutoDensityOn(view)
    IN /\ view # NoView
       /\ nops < MaxOps
       /\ view' =
            IF ~view.inited
            THEN [view EXCEPT !.call = "resize",
                              !.args = <<desiredScreenWidth, desiredScreenHeight, resolution>>,
                              !.threw = TRUE, !.wrote = FALSE]
            ELSE [view EXCEPT
                     !.source = [width |-> desiredScreenWidth,
                                 height |-> desiredScreenHeight,
                                 resolution |-> resolution],
                     !.screen = [width |-> desiredScreenWidth,
                                 height |-> desiredScreenHeight],
                     !.cssWidth  = IF auto THEN Px(desiredScreenWidth) ELSE @,
                     !.cssHeight = IF auto THEN Px(desiredScreenHeight) ELSE @,
                     !.call = "resize",
                     !.args = <<desiredScreenWidth, desiredScreenHeight, resolution>>,
                     !.threw = FALSE, !.wrote = auto]
       /\ nops' = nops + 1
       /\ UNCHANGED <<style, cfg, textures, lastOp, scene, heap>>

\* view.resolution = value: the texture keeps its size at the new
\* resolution.  Before init this.texture is undefined and the setter throws.
set_resolution(value) ==
    /\ view # NoView
    /\ nops < MaxOps
    /\ view' =
         IF ~view.inited
         THEN [view EXCEPT !.call = "set resolution", !.args = <<value>>,
                           !.threw = TRUE, !.wrote = FALSE]
         ELSE [view EXCEPT !.source = [@ EXCEPT !.resolution = value],
                           !.call = "set resolution", !.args = <<value>>,
                           !.threw = FALSE, !.wrote = FALSE]
    /\ nops' = nops + 1
    /\ UNCHANGED <<style, cfg, textures, lastOp, scene, heap>>

\* view.destroy(options) with options a boolean or { removeView }: the
\* canvas leaves its parent when removal is asked for and it has one.
\* Before init this.canvas is undefined and asking for removal throws.
ViewDestroy(removeView) ==
    /\ view # NoView
    /\ nops < MaxOps
    /\ view' = [view EXCEPT
                  !.attached = IF removeView /\ view.inited THEN FALSE ELSE @,
                  !.call = "destroy", !.args = <<removeView>>,
                  !.threw = removeView /\ ~view.inited, !.wrote = FALSE]
    /\ nops' = nops + 1
    /\ UNCHANGED <<style, cfg, textures, lastOp, scene, heap>>

ViewInit ==
    /\ view = NewView
    /\ scene = NoScene
    /\ heap = NoHeap
    /\ style = [j \in Inst |-> Blank]
    /\ cfg = [k \in CfgIds |-> [x \in {} |-> Null]]
    /\ textures = [t \in TexIds |-> [calls |-> 0, sourceDestroyed |-> FALSE]]
    /\ lastOp = [op |-> "none", inst |-> 1, key |-> "", arg |-> 1,
                 deprecations |-> <<>>, prev |-> "none"]
    /\ nops = 0

ViewNext ==
    \/ \E options \in ViewOptions : init(options)
    \/ \E w \in ViewSizes, h \in ViewSizes, r \in ViewSizes : resize(w, h, r)
    \/ \E value \in ViewSizes : set_resolution(value)
    \/ \E removeView \in BOOLEAN : ViewDestroy(removeView)

ViewSpec == ViewInit /\ [][ViewNext]_vars

\* init was last given autoDensity: true.
AskedAutoDensity ==
    "autoDensity" \in DOMAIN view.initOptions /\ view.initOptions.autoDensity

\* C23 as stated: after init with autoDensity true a resize(w, h, r)
\* leaves the canvas CSS width `${w}px` and CSS height `${h}px`; after init
\* with autoDensity false or absent a resize writes no CSS size.
C23_Original ==
    (view # NoView /\ view.call = "resize" /\ ~view.threw) =>
        IF AskedAutoDensity
        THEN /\ view.cssWidth = Px(view.args[1])
             /\ view.cssHeight = Px(view.args[2])
        ELSE ~view.wrote

\* ---------------------------------------------------------------------
\* The drop-shadow records as objects.  heap.objs lists the contents of
\* every record by identity: a reference is a position in it, 0 is null.
\* heap.live are the constructed styles, heap.held[i] the reference in
\* _dropShadow of style i, heap.defaultTextStyle the contents of
\* TextStyle.defaultTextStyle.  The last call is kept with its target, the
\* reference it was given and the number of objects there were before it.
\* ---------------------------------------------------------------------

\* The reference of TextStyle.defaultDropShadow.
DefaultShadowRef == 1

\* The references of the records the caller built: { blur: 4 } and
\* { alpha: 0, distance: 0 }.
CallerRefs == {2, 3}

\* The values a caller assigns to dropShadow or puts in a configuration:
\* null, a boolean, or a reference: to its own record, to
\* TextStyle.defaultDropShadow, or to what the getter of a style returned.
ShadowArgs(h) ==
    {Null, [bool |-> TRUE], [bool |-> FALSE]}
        \cup {[ref |-> DefaultShadowRef]}
        \cup {[ref |-> r] : r \in CallerRefs}
        \cup {[ref |-> h.held[i]] : i \in {j \in h.live : h.held[j] # 0}}

\* value !== null && typeof value === 'object'
IsRef(value) == "ref" \in DOMAIN value

\* An object literal: a new object with these contents.
Allocate(h, contents) == [h EXCEPT !.objs = Append(@, contents)]

\* Faulty variant of the dropShadow setter: a record is stored as given.
StoreShadow_noCopy(h, i, value) ==
    IF IsRef(value)
    THEN [h EXCEPT !.held[i] = value.ref]
    ELSE IF value = [bool |-> TRUE]
    THEN [Allocate(h, Spread(h.objs[DefaultShadowRef], <<>>))
            EXCEPT !.held[i] = Len(h.objs) + 1]
    ELSE [h EXCEPT !.held[i] = 0]

\* The dropShadow setter on style i: a record and true are stored as a new
\* object spread from TextStyle.defaultDropShadow, anything else as null.
StoreShadow(h, i, value) ==
    IF IsRef(value)
    THEN [Allocate(h, Spread(h.objs[DefaultShadowRef], h.objs[value.ref]))
            EXCEPT !.held[i] = Len(h.objs) + 1]
    ELSE IF value = [bool |-> TRUE]
    THEN [Allocate(h, Spread(h.objs[DefaultShadowRef], <<>>))
            EXCEPT !.held[i] = Len(h.objs) + 1]
    ELSE [h EXCEPT !.held[i] = 0]

\* convertV7Tov8Style on a configuration whose dropShadow is value and that
\* has no sibling field: true becomes a new record read field by field from
\* TextStyle.defaultDropShadow.  The heap and the value the configuration
\* holds afterwards.
ConvertShadowRef(h, value) ==
    IF value = [bool |-> TRUE]
    THEN [heap |-> Allocate(h, [f \in ShadowFields |-> h.objs[DefaultShadowRef][f]]),
          value |-> [ref |-> Len(h.objs) + 1]]
    ELSE [heap |-> h, value |-> value]

\* new TextStyle({ dropShadow: value }) as style i.
BuildStyle(h, i, value) ==
    LET m == ConvertShadowRef(h, value)
    IN StoreShadow([m.heap EXCEPT !.live = @ \cup {i}], i, m.value)

\* new TextStyle(TextStyle.defaultTextStyle) as style i: the conversion
\* works on the defaults object itself, and the style takes its dropShadow.
BuildFromDefaults(h, i) ==
    LET m == ConvertShadowRef(h, h.defaultTextStyle.dropShadow)
        written == [m.heap EXCEPT !.defaultTextStyle.dropShadow = m.value,
                                  !.live = @ \cup {i}]
    IN StoreShadow(written, i, m.value)

\* The record of a call in the heap.
Called(h, name, i, value) ==
    [h EXCEPT !.call = name, !.target = i, !.before = Len(heap.objs),
              !.given = IF IsRef(value) THEN value.ref ELSE 0]

ShadowInit ==
    /\ heap = [objs |-> <<defaultDropShadow, [blur |-> 4],
                         [alpha |-> 0, distance |-> 0]>>,
               live |-> {},
               held |-> [i \in Inst |-> 0],
               defaultTextStyle |-> defaultTextStyle,
               call |-> "none", target |-> 1, before |-> 3, given |-> 0]
    /\ scene = NoScene
    /\ view = NoView
    /\ style = [j \in Inst |-> Blank]
    /\ cfg = [k \in CfgIds |-> [x \in {} |-> Null]]
    /\ textures = [t \in TexIds |-> [calls |-> 0, sourceDestroyed |-> FALSE]]
    /\ lastOp = [op |-> "none", inst |-> 1, key |-> "", arg |-> 1,
                 deprecations |-> <<>>, prev |-> "none"]
    /\ nops = 0

\* A step of the heap.
HeapStep(after) ==
    /\ heap' = after
    /\ nops' = nops + 1
    /\ UNCHANGED <<style, cfg, textures, lastOp, scene, view>>

\* new TextStyle({ dropShadow: value })
ShadowConstruct(i, value) ==
    /\ nops < MaxOps
    /\ i \notin heap.live
    /\ HeapStep(Called(BuildStyle(heap, i, value), "construct", i, value))

\* new TextStyle({}) and new TextStyle(TextStyle.defaultTextStyle)
ShadowConstructDefault(i, shared) ==
    /\ nops < MaxOps
    /\ i \notin heap.live
    /\ HeapStep(Called(IF shared THEN BuildFromDefaults(heap, i)
                       ELSE BuildStyle(heap, i, heap.defaultTextStyle.dropShadow),
                       IF shared THEN "construct from defaults" ELSE "construct",
                       i, Null))

\* style.dropShadow = value
ShadowAssign(i, value) ==
    /\ nops < MaxOps
    /\ i \in heap.live
    /\ HeapStep(Called(StoreShadow(heap, i, value), "set dropShadow", i, value))

\* style.reset()
ShadowReset(i) ==
    /\ nops < MaxOps
    /\ i \in heap.live
    /\ HeapStep(Called(StoreShadow(heap, i, heap.defaultTextStyle.dropShadow),
                       "reset", i, Null))

\* style j = style i .clone(): the configuration carries this.dropShadow.
ShadowClone(i, j) ==
    LET value == IF heap.held[i] = 0 THEN Null ELSE [ref |-> heap.held[i]]
    IN /\ nops < MaxOps
       /\ i \in heap.live
       /\ j \notin heap.live
       /\ HeapStep(Called(BuildStyle(heap, j, value), "clone", j, value))

ShadowNext ==
    \/ \E i \in Inst : \E value \in ShadowArgs(heap) : ShadowConstruct(i, value)
    \/ \E i \in Inst, shared \in BOOLEAN : ShadowConstructDefault(i, shared)
    \/ \E i \in Inst : \E value \in ShadowArgs(heap) : ShadowAssign(i, value)
    \/ \E i \in Inst : ShadowReset(i)
    \/ \E i, j \in Inst : ShadowClone(i, j)

ShadowSpec == ShadowInit /\ [][ShadowNext]_vars

\* C26. Drop-shadow records are never shared: the record a style holds is
\* not TextStyle.defaultDropShadow, not the caller's record and not the
\* record of another style; the record held by the style the last call
\* constructed, cloned, reset or assigned to was created during that call
\* and is not the record the call was given; and the contents of
\* TextStyle.defaultDropShadow and of TextStyle.defaultTextStyle are those
\* they started with.
C26_ShadowsNeverShared ==
    heap # NoHeap =>
        /\ \A i \in heap.live :
              heap.held[i] # 0 =>
                 /\ heap.held[i] # DefaultShadowRef
                 /\ heap.held[i] \notin CallerRefs
                 /\ \A j \in heap.live \ {i} : heap.held[j] # heap.held[i]
        /\ (heap.call # "none" /\ heap.held[heap.target] # 0) =>
              /\ heap.held[heap.target] > heap.before
              /\ heap.held[heap.target] # heap.given
        /\ heap.objs[DefaultShadowRef] = defaultDropShadow
        /\ heap.defaultTextStyle = defaultTextStyle

\* C26 witness: a style that holds a record was cloned, and the clone holds
\* a record of the same contents that is another object.
C26_Witness ==
    /\ heap # NoHeap
    /\ heap.call = "clone"
    /\ heap.live = Inst
    /\ heap.given # 0
    /\ heap.held[1] # heap.held[2]
    /\ heap.objs[heap.held[1]] = heap.objs[heap.held[2]]

====
